---------------------------- MODULE Spec2Model ----------------------------
(***************************************************************************)
(* Media trust scoring engine of mediaguardx (backend/routes/detection.py  *)
(* and backend/services/*_analyzer.py): one single-shot detection pass     *)
(* (Spec), the stream session of backend/routes/live.py (SpecLive), the    *)
(* upload validation of a detection request (SpecUpload), the local        *)
(* classifier entry point analyze_media (SpecEngine) and the detection     *)
(* route of the mediaguardx/ tree (SpecDemo), and single calls of the      *)
(* lip-sync, fingerprint and audio analyzers (SpecAnalyzers), and the      *)
(* Grad-CAM heatmap of mediaguardx/backend/services/model_engine.py        *)
(* (SpecGradcam), and the login route of backend/routes/auth.py, one       *)
(* request at a time (SpecLogin) and two at a time (SpecLoginConcurrent).  *)
(* The specifications share                                                *)
(* the initial state; each one takes the steps of its own component and    *)
(* leaves the variables of the others alone.                               *)
(*                                                                         *)
(* Numbers.  Every percentage (scores, probabilities of the fingerprint    *)
(* analyzer, contributions, the composite) is an integer number of         *)
(* hundredths of a point: 85.0 is 8500.  The deepfake probability of the   *)
(* external classifier (0..1) is an integer number of hundredths: 0.8 is   *)
(* 80.  Weights are integer percents: 0.30 is 30.  A quotient that the     *)
(* code computes in floating point is kept exact as numerator/denominator  *)
(* and rounded once, half to even, where the code calls round().           *)
(*                                                                         *)
(* Python values.  A dict is a record with py = "dict" plus its keys; None *)
(* is [py |-> "None"]; a missing number is NoneNum and a missing string is *)
(* "None".                                                                 *)
(***************************************************************************)
EXTENDS Integers, Sequences, FiniteSets, TLC

\* one detection pass (routes/detection.py)
VARIABLES pc, media_type, next_task, se_wait, results,
          scores, total_weight, weighted_sum, num_suspicious,
          trust_score, label, anomalies

\* one stream session (routes/live.py); frames_sent is what the client has
\* sent so far, inbox what the server has not received yet
VARIABLES ws_state, client_state, api_available, inbox, frames_sent, data, frame_result, sent

\* one detection request up to its response (routes/detection.py, utils/file_handler.py)
VARIABLES up_pc, upload, http_status, file_written, analyzers_invoked, record_stored

\* analyze_media (services/model_engine.py of both trees)
VARIABLES engine_pc, engine_tree, ML_AVAILABLE, _MODEL, engine_input, engine_result
\* model_loads counts the assignments of the four module globals by the loader;
\* model_was_loaded is `_MODEL is not None` as the last call found it
VARIABLES model_loads, model_was_loaded

\* _detect_media of mediaguardx/backend/routes/detection.py
VARIABLES demo_runs

\* one call of an analyzer of backend/services: which one, on what, its return
VARIABLES called, call_input, call_result

\* _generate_gradcam: hooks is the set of hooks registered on
\* _MODEL.features[-1], each named by the invocation that registered it
VARIABLES gradcam_calls, hooks, gradcam_raised_at, gradcam_result

\* login (routes/auth.py): user_doc is the document of the account in
\* db.users, now the value of datetime.utcnow() in minutes, login the state of
\* each request.  consecutive_failed counts the wrong passwords verified since
\* the last correct one or the last unlock, wrong_checked all wrong passwords
\* verified, logins_started the requests made.
VARIABLES user_doc, now, login, logins_started, consecutive_failed, wrong_checked

passVars == <<pc, media_type, next_task, se_wait, results,
              scores, total_weight, weighted_sum, num_suspicious,
              trust_score, label, anomalies>>
liveVars == <<ws_state, client_state, api_available, inbox, frames_sent, data, frame_result, sent>>
uploadVars == <<up_pc, upload, http_status, file_written, analyzers_invoked, record_stored>>
engineVars == <<engine_pc, engine_tree, ML_AVAILABLE, _MODEL, engine_input, engine_result,
                model_loads, model_was_loaded>>
demoVars == <<demo_runs>>
callVars == <<called, call_input, call_result>>
gradcamVars == <<gradcam_calls, hooks, gradcam_raised_at, gradcam_result>>
loginVars == <<user_doc, now, login, logins_started, consecutive_failed, wrong_checked>>

vars == <<passVars, liveVars, uploadVars, engineVars, demoVars, callVars, gradcamVars,
          loginVars>>

\* the variables a step of one component leaves alone
notPassVars == <<liveVars, uploadVars, engineVars, demoVars, callVars, gradcamVars, loginVars>>
notLiveVars == <<passVars, uploadVars, engineVars, demoVars, callVars, gradcamVars, loginVars>>
notUploadVars == <<passVars, liveVars, engineVars, demoVars, callVars, gradcamVars, loginVars>>
notEngineVars == <<passVars, liveVars, uploadVars, demoVars, callVars, gradcamVars, loginVars>>
notDemoVars == <<passVars, liveVars, uploadVars, engineVars, callVars, gradcamVars, loginVars>>
notCallVars == <<passVars, liveVars, uploadVars, engineVars, demoVars, gradcamVars, loginVars>>
\* a Grad-CAM step reads ML_AVAILABLE and _MODEL of the engine
notGradcamVars == <<passVars, liveVars, uploadVars, demoVars, callVars, loginVars>>
notLoginVars == <<passVars, liveVars, uploadVars, engineVars, demoVars, callVars, gradcamVars>>

---------------------------------------------------------------------------
(* Python values *)

None == [py |-> "None"]
EmptyDict == [py |-> "dict"]
Raised == [py |-> "raise"]
Pending == [py |-> "pending"]
NoneNum == -1
NoneStr == "None"

IsDict(r) == r.py = "dict"
Has(r, k) == k \in DOMAIN r
Truthy(s) == s # NoneStr
\* r.get(k) of a body
Get0(r, k) == IF k \in DOMAIN r THEN r[k] ELSE NoneStr

RECURSIVE SumOver(_, _)
SumOver(S, f) ==
  IF S = {} THEN 0
  ELSE LET x == CHOOSE y \in S : TRUE IN f[x] + SumOver(S \ {x}, f)

Max(a, b) == IF a >= b THEN a ELSE b
Min(a, b) == IF a <= b THEN a ELSE b

(* round(n/d) to the nearest integer, ties to even; d > 0, n >= 0 *)
RoundDiv(n, d) ==
  LET q == n \div d
      r == n % d
  IN IF 2 * r < d THEN q
     ELSE IF 2 * r > d THEN q + 1
     ELSE IF q % 2 = 0 THEN q ELSE q + 1

---------------------------------------------------------------------------
(* Bounds of the sampled analyzer inputs *)

\* mouth-motion standard deviations sampled: 10.0 * k, k in 0..MaxMotionStd
MaxMotionStd == 2
\* spectral flatness sampled: SpecFlatLevels[1 .. MaxSpecFlat]
MaxSpecFlat == 3
\* audio features other than flatness (zcr, mfcc, pitch, rolloff) flagged together
MaxOtherFlags == 1
\* invocations of _generate_gradcam in one process
MaxGradcamCalls == 3
\* login requests made on the account
MaxLogins == 7
\* the last minute of the clock
MaxClock == 60
\* frames a client sends on one stream session
MaxFrames == 3
\* analyses of one byte-identical upload by the route of the mediaguardx/ tree
MaxRuns == 2

MediaTypes == {"image", "video", "audio"}

---------------------------------------------------------------------------
(* services/sightengine_client.py *)

\* deepfake probabilities of a success response that are sampled
DeepfakeProbs == {0, 80, 100}

SightengineUnavailable(raw) ==
  [py |-> "dict", trust_score |-> NoneNum, deepfake_probability |-> NoneNum,
   raw_response |-> raw, api_available |-> FALSE]

\* result.get("type", {}).get("deepfake", 0); the body is a record with the
\* keys it carries (status, deepfake for type.deepfake)
DeepfakeOf(body) == IF Has(body, "deepfake") THEN body.deepfake ELSE 0

\* what follows result = resp.json() in both adapters
SightengineResult(body) ==
  IF Get0(body, "status") = "failure" THEN SightengineUnavailable(body)
  ELSE LET deepfake_score == DeepfakeOf(body)
       IN [py |-> "dict", trust_score |-> (100 - deepfake_score) * 100,
           deepfake_probability |-> deepfake_score,
           raw_response |-> body, api_available |-> TRUE]

\* outcome.kind: "no_credentials", "exception" (open, transport, timeout or
\* JSON error) or "response" with the JSON body of the answer
analyze_deepfake(outcome) ==
  IF outcome.kind = "no_credentials" THEN SightengineUnavailable(None)
  ELSE IF outcome.kind = "exception" THEN SightengineUnavailable(None)
  ELSE SightengineResult(outcome.body)

analyze_deepfake_from_bytes(outcome) ==
  IF outcome.kind = "no_credentials" THEN SightengineUnavailable(None)
  ELSE IF outcome.kind = "exception" THEN SightengineUnavailable(None)
  ELSE SightengineResult(outcome.body)

\* bodies of the service: a failure, a success with its deepfake probability,
\* a success body without type.deepfake
FailureBody == [status |-> "failure"]
SuccessBody(p) == [status |-> "success", deepfake |-> p]
SuccessBodyNoDeepfake == [status |-> "success"]

\* outcomes decided before the first network wait / after it
SightengineImmediate == {[kind |-> "no_credentials"], [kind |-> "exception"]}
SightengineResponses ==
  {[kind |-> "exception"]}
    \cup {[kind |-> "response", body |-> b] :
            b \in {FailureBody, SuccessBodyNoDeepfake} \cup {SuccessBody(p) : p \in DeepfakeProbs}}

---------------------------------------------------------------------------
(* services/metadata_analyzer.py *)

\* exif: "none" (no EXIF), "nocamera", "camera"; ts: timestamps differ;
\* ratio: "high" (> 0.8), "low" (< 0.01), "normal"; fps_std: standard frame
\* rate; lowres: below 360p; lossy_small: lossy container under 50000 bytes
analyze_metadata(mt, in) ==
  LET missing_camera == mt = "image" /\ in.exif \in {"none", "nocamera"}
      irregular_timestamps ==
        \/ mt = "image" /\ in.exif # "none" /\ in.ts
        \/ mt = "video" /\ in.vmeta /\ ~in.fps_std
      suspicious_compression ==
        \/ mt = "image" /\ in.ratio \in {"high", "low"}
        \/ mt = "video" /\ in.vmeta /\ in.lowres
        \/ mt = "audio" /\ in.lossy_small
  IN [py |-> "dict", missingCamera |-> missing_camera,
      irregularTimestamps |-> irregular_timestamps,
      suspiciousCompression |-> suspicious_compression,
      details |-> "text"]

MetadataInputs ==
  [exif : {"none", "nocamera", "camera"}, ts : BOOLEAN,
   ratio : {"high", "low", "normal"}, vmeta : BOOLEAN, fps_std : BOOLEAN,
   lowres : BOOLEAN, lossy_small : BOOLEAN]

---------------------------------------------------------------------------
(* services/fingerprint_analyzer.py *)

\* relative insertion order of the keys of the dict scores in analyze_fingerprint
SourceOrder == <<"StyleGAN", "NeuralTextures", "FaceSwap", "DeepFaceLab">>

\* FingerprintScores in which boundary blur adds 60 to DeepFaceLab
FingerprintScores_DeepFaceLabLeads(in) ==
  LET peaks == in.freq_ok /\ in.peaks
      hf == IF in.freq_ok THEN in.hf ELSE "low"
      blur == in.face_ok /\ in.blur
  IN [StyleGAN |-> IF peaks THEN 40 ELSE 0,
      NeuralTextures |-> (IF peaks THEN 20 ELSE 0) + (IF hf = "high" THEN 30 ELSE 0),
      FaceSwap |-> (IF hf = "low" THEN 20 ELSE 0) + (IF blur THEN 35 ELSE 0),
      DeepFaceLab |-> IF blur THEN 60 ELSE 0]

\* freq_ok / face_ok: the sub-analysis returned a non-empty dict;
\* peaks: periodic_peaks > 2; hf: "high" (> 0.7), "low" (< 0.3), "mid";
\* blur: has_face and boundary_blur
FingerprintScores(in) ==
  LET peaks == in.freq_ok /\ in.peaks
      hf == IF in.freq_ok THEN in.hf ELSE "low"
      blur == in.face_ok /\ in.blur
  IN [StyleGAN |-> IF peaks THEN 40 ELSE 0,
      NeuralTextures |-> (IF peaks THEN 20 ELSE 0) + (IF hf = "high" THEN 30 ELSE 0),
      FaceSwap |-> (IF hf = "low" THEN 20 ELSE 0) + (IF blur THEN 35 ELSE 0),
      DeepFaceLab |-> IF blur THEN 30 ELSE 0]

\* max(scores, key=scores.get): the first key, in insertion order, of maximal value
BestSource(in) ==
  LET sc == FingerprintScores(in)
      ord == SourceOrder
      present == {i \in 1..Len(ord) : sc[ord[i]] > 0}
      best == CHOOSE i \in present :
                \A j \in present : sc[ord[j]] < sc[ord[i]] \/ (sc[ord[j]] = sc[ord[i]] /\ i <= j)
  IN ord[best]

\* the six names of KNOWN_SOURCES
KNOWN_SOURCES ==
  {"FaceSwap", "DeepFaceLab", "Face2Face", "NeuralTextures", "StyleGAN", "Wav2Lip"}

\* AboveFloor that reports a source at exactly 30
AboveFloor_Inclusive(best_score) == best_score >= 30

\* line 205: best_source if best_score > 30 else None
AboveFloor(best_score) == best_score > 30

analyze_fingerprint(mt, in) ==
  IF mt = "audio" THEN None
  ELSE IF ~in.freq_ok /\ ~in.face_ok THEN None
  ELSE LET sc == FingerprintScores(in)
       IN IF \A s \in DOMAIN sc : sc[s] = 0
          THEN [py |-> "dict", source |-> NoneStr, probability |-> 0]
          ELSE LET best_source == BestSource(in)
                   best_score == Min(100, sc[best_source])
               IN [py |-> "dict",
                   source |-> IF AboveFloor(best_score) THEN best_source ELSE NoneStr,
                   probability |-> best_score * 100]

FingerprintInputs ==
  [freq_ok : BOOLEAN, face_ok : BOOLEAN, peaks : BOOLEAN,
   hf : {"high", "mid", "low"}, blur : BOOLEAN]


---------------------------------------------------------------------------
(* services/compression_analyzer.py *)

PLATFORM_SIGNATURES ==
  << [name |-> "WhatsApp", max_width |-> 1600, max_height |-> 1200, q_low |-> 30, q_high |-> 60],
     [name |-> "Instagram", max_width |-> 1080, max_height |-> 1350, q_low |-> 40, q_high |-> 75],
     [name |-> "TikTok", max_width |-> 1080, max_height |-> 1920, q_low |-> 50, q_high |-> 80],
     [name |-> "Twitter/X", max_width |-> 4096, max_height |-> 4096, q_low |-> 60, q_high |-> 85],
     [name |-> "Telegram", max_width |-> 2560, max_height |-> 2560, q_low |-> 70, q_high |-> 90] >>

\* evidence texts, without the numbers they are formatted with
EvQuality == "Estimated JPEG quality"
EvBlockingSignificant == "Significant blocking artifacts detected"
EvBlockingMild == "Mild blocking artifacts detected"
EvImageDims == "Image dimensions"
EvRatio == "Compression ratio"
EvConsistent(platform) == <<"Dimensions and quality consistent with", platform>>
EvVideoDims == "Video dimensions"
EvFrameRate == "Frame rate"
EvBitrate == "Estimated bitrate"
EvVeryLow == "Very low bitrate - heavy compression"
EvModerate == "Moderate bitrate - possible social media compression"
EvNoAnalysis == "No compression analysis available for this file type"

\* "blocking" in str(e).lower(), "heavy" in ..., "very low" in ...
ContainsBlocking(e) == e \in {<<EvBlockingSignificant>>, <<EvBlockingMild>>}
ContainsHeavy(e) == e = <<EvVeryLow>>
ContainsVeryLow(e) == e = <<EvVeryLow>>

\* the first signature, in table order, that the dimensions and quality fit;
\* quality in hundredths, 0 is falsy
MatchPlatform(w, h, quality) ==
  LET fits == {i \in 1..Len(PLATFORM_SIGNATURES) :
                 /\ w <= PLATFORM_SIGNATURES[i].max_width
                 /\ h <= PLATFORM_SIGNATURES[i].max_height
                 /\ quality # NoneNum /\ quality # 0
                 /\ PLATFORM_SIGNATURES[i].q_low * 100 <= quality
                 /\ quality <= PLATFORM_SIGNATURES[i].q_high * 100}
  IN IF fits = {} THEN NoneStr
     ELSE PLATFORM_SIGNATURES[CHOOSE i \in fits : \A j \in fits : i <= j].name

\* ratio: file size / raw size in 1/10000; blockiness in hundredths;
\* pil_ok: the image opens with PIL; cap_ok: the capture opens;
\* bitrate in bits per second
analyze_compression(mt, in) ==
  LET quality == IF in.pil_ok THEN Min(10000, in.ratio * 5) ELSE NoneNum
      evq == IF quality # NoneNum THEN <<<<EvQuality>>>> ELSE <<>>
      evb == IF in.blockiness > 30 THEN <<<<EvBlockingSignificant>>>>
             ELSE IF in.blockiness > 10 THEN <<<<EvBlockingMild>>>> ELSE <<>>
      platform_i == MatchPlatform(in.w, in.h, quality)
      evp == IF platform_i # NoneStr THEN <<EvConsistent(platform_i)>> ELSE <<>>
      platform_v ==
        IF in.bitrate < 500000
        THEN (IF in.w <= 480 THEN "WhatsApp" ELSE IF in.w <= 720 THEN "Instagram" ELSE NoneStr)
        ELSE IF in.bitrate < 2000000
        THEN (IF in.w = 1080 /\ in.h = 1920 THEN "TikTok" ELSE NoneStr)
        ELSE NoneStr
      evv == IF in.bitrate < 500000 THEN <<<<EvVeryLow>>>>
             ELSE IF in.bitrate < 2000000 THEN <<<<EvModerate>>>> ELSE <<>>
      \* round(bitrate / (w * h * fps * 24), 6) in 1/1000000, the fraction
      \* reduced by 72000 to stay within 32-bit integers (the sampled
      \* bitrates are multiples of 72 and the sampled areas multiples of 100)
      denom == ((in.w * in.h) \div 100) * ((in.fps * 24) \div 720)
  IN IF mt = "image" /\ in.pil_ok
     THEN [py |-> "dict", platform |-> platform_i, compressionRatio |-> in.ratio,
           evidence |-> evq \o evb \o << <<EvImageDims>>, <<EvRatio>> >> \o evp]
     ELSE IF mt = "image"
     THEN [py |-> "dict", platform |-> NoneStr, compressionRatio |-> 0,
           evidence |-> IF evb = <<>> THEN << <<EvNoAnalysis>> >> ELSE evb]
     ELSE IF mt = "video" /\ in.cap_ok
     THEN [py |-> "dict", platform |-> platform_v,
           compressionRatio |-> IF denom > 0 THEN RoundDiv((in.bitrate \div 72) * 1000, denom) ELSE 0,
           evidence |-> << <<EvVideoDims>>, <<EvFrameRate>>, <<EvBitrate>> >> \o evv]
     ELSE [py |-> "dict", platform |-> NoneStr, compressionRatio |-> 0,
           evidence |-> << <<EvNoAnalysis>> >>]

CompressionInputs ==
  {in \in [pil_ok : BOOLEAN, cap_ok : BOOLEAN, ratio : {900, 1900},
            blockiness : {0, 20, 50}, w : {480, 1080}, h : {360, 1920},
            bitrate : {360000, 1440000, 5040000}, fps : {30}] :
     (in.w = 480) <=> (in.h = 360)}

---------------------------------------------------------------------------
(* services/audio_analyzer.py *)

\* mean spectral flatness in 1/10000
SpecFlatLevels == <<0, 6008, 10000, 3504, 4000>>

\* clone_score in 1/200 of a point: flags * 20 + (spec_flat * 50 if spec_flat > 0.3 else 0)
CloneScore(in) ==
  LET flags == (IF in.spec_flat > 4000 THEN 1 ELSE 0) + (IF in.zcr_low THEN 1 ELSE 0)
               + (IF in.mfcc_low THEN 1 ELSE 0) + (IF in.pitch_low THEN 1 ELSE 0)
               + (IF in.rolloff_low THEN 1 ELSE 0)
  IN Min(100 * 200, flags * 20 * 200 + (IF in.spec_flat > 3000 THEN in.spec_flat ELSE 0))

\* librosa_ok: the import succeeded; loaded: librosa.load and the feature
\* extraction did not raise and the signal is not empty
analyze_audio(mt, in) ==
  IF ~in.librosa_ok THEN None
  ELSE IF mt \notin {"audio", "video"} THEN None
  ELSE IF ~in.loaded THEN None
  ELSE LET clone_score == CloneScore(in)
       IN [py |-> "dict", cloned |-> clone_score > 50 * 200,
           score |-> RoundDiv(clone_score, 20) * 10, details |-> "text"]

OtherFlags(in) ==
  (IF in.zcr_low THEN 1 ELSE 0) + (IF in.mfcc_low THEN 1 ELSE 0)
  + (IF in.pitch_low THEN 1 ELSE 0) + (IF in.rolloff_low THEN 1 ELSE 0)

AudioInputs ==
  {in \in [librosa_ok : BOOLEAN, loaded : BOOLEAN,
            spec_flat : {SpecFlatLevels[i] : i \in 1..Min(MaxSpecFlat, Len(SpecFlatLevels))},
            zcr_low : BOOLEAN, mfcc_low : BOOLEAN, pitch_low : BOOLEAN,
            rolloff_low : BOOLEAN] :
     OtherFlags(in) <= MaxOtherFlags}

---------------------------------------------------------------------------
(* services/emotion_analyzer.py *)

FaceEmotions == {NoneStr, "happy"}
AudioEmotions == {NoneStr, "happy", "sad"}

\* face: result of _analyze_face_emotion; audio: result of _analyze_audio_emotion
analyze_emotion_mismatch(mt, in) ==
  IF mt \notin {"video", "image"} THEN None
  ELSE LET face0 == in.face
           audio0 == IF mt = "video" THEN in.audio ELSE NoneStr
       IN IF face0 = NoneStr /\ audio0 = NoneStr THEN None
          ELSE LET face_emotion == IF face0 = NoneStr THEN "unknown" ELSE face0
                   audio_emotion == IF audio0 = NoneStr THEN "unknown" ELSE audio0
                   mismatch_score ==
                     IF face_emotion = "unknown" \/ audio_emotion = "unknown" THEN 3000
                     ELSE IF face_emotion = audio_emotion THEN 500
                     ELSE 7500
               IN [py |-> "dict", faceEmotion |-> face_emotion,
                   audioEmotion |-> audio_emotion, score |-> mismatch_score]

EmotionInputs == [face : FaceEmotions, audio : AudioEmotions]

---------------------------------------------------------------------------
(* services/sync_analyzer.py *)

SyncResult(mismatch, score) ==
  [py |-> "dict", lipSyncMismatch |-> mismatch, mismatchScore |-> score, details |-> "text"]

\* motion / onsets: the lists are not empty; activity: some motion value > 5;
\* density: onsets per second "high" (> 2), "low" (< 0.5), "mid";
\* mean: mean motion "low" (< 3), "high" (> 10), "mid"; std in hundredths
analyze_sync(mt, in) ==
  IF mt # "video" THEN None
  ELSE IF ~in.motion /\ ~in.onsets THEN None
  ELSE IF ~in.motion THEN SyncResult(FALSE, 3000)
  ELSE IF ~in.onsets
  THEN (IF in.activity THEN SyncResult(TRUE, 7000) ELSE SyncResult(FALSE, 1000))
  ELSE IF in.density = "high" /\ in.mean = "low" THEN SyncResult(TRUE, 8000)
  ELSE IF in.density = "low" /\ in.mean = "high" THEN SyncResult(TRUE, 7000)
  ELSE LET mismatch_score == Max(0, 5000 - in.std * 2)
       IN SyncResult(mismatch_score > 5000, RoundDiv(mismatch_score, 10) * 10)

SyncInputs ==
  [motion : BOOLEAN, onsets : BOOLEAN, activity : BOOLEAN,
   density : {"high", "mid", "low"}, mean : {"low", "mid", "high"},
   std : {k * 1000 : k \in 0..MaxMotionStd}]


---------------------------------------------------------------------------
(* routes/detection.py: fusion *)

WEIGHTS ==
  [sightengine |-> 30, metadata |-> 20, fingerprint |-> 18, compression |-> 12,
   audio |-> 8, emotion |-> 6, sync |-> 6]

Heuristics == <<"metadata", "fingerprint", "compression", "audio", "emotion", "sync">>
HeuristicNames == {Heuristics[i] : i \in 1..Len(Heuristics)}

DefaultScore == 8500

B2N(b) == IF b THEN 1 ELSE 0
Get(r, k, dflt) == IF Has(r, k) THEN r[k] ELSE dflt

\* InvertRisk that forgets the inversion
InvertRisk_NotInverted(risk) == risk

\* 100.0 - float(risk): a risk-like value (higher = more suspicious) as trust
InvertRisk(risk) == 10000 - risk

_extract_score(result) ==
  IF ~IsDict(result) THEN DefaultScore
  ELSE IF Has(result, "cloned") /\ Has(result, "score") THEN InvertRisk(result.score)
  ELSE IF Has(result, "faceEmotion") /\ Has(result, "score") THEN InvertRisk(result.score)
  ELSE IF Has(result, "mismatchScore") THEN InvertRisk(result.mismatchScore)
  ELSE IF Has(result, "missingCamera")
  THEN LET mc == result.missingCamera
           it == Get(result, "irregularTimestamps", FALSE)
           sc == Get(result, "suspiciousCompression", FALSE)
           flags_set == B2N(mc) + B2N(it) + B2N(sc)
           score == 10000 - (IF mc THEN 5500 ELSE 0) - (IF it THEN 3000 ELSE 0)
                    - (IF sc THEN 2500 ELSE 0) - (IF flags_set >= 2 THEN 1500 ELSE 0)
       IN Max(0, score)
  ELSE IF Has(result, "probability") /\ Has(result, "source")
  THEN LET prob == result.probability
       IN IF Truthy(result.source) THEN Max(0, 10000 - (prob * 3) \div 2)
          ELSE IF prob > 0 THEN Max(5000, 8500 - prob \div 2)
          ELSE 8000
  ELSE IF Has(result, "compressionRatio")
  THEN IF Truthy(Get(result, "platform", NoneStr)) THEN 6000
       ELSE LET evidence == Get(result, "evidence", <<>>)
                has_blocking == \E i \in 1..Len(evidence) : ContainsBlocking(evidence[i])
                has_heavy == \E i \in 1..Len(evidence) :
                               ContainsHeavy(evidence[i]) \/ ContainsVeryLow(evidence[i])
            IN IF has_blocking /\ has_heavy THEN 5000
               ELSE IF has_blocking \/ has_heavy THEN 6500
               ELSE 8000
  ELSE IF Has(result, "score") THEN result.score
  ELSE DefaultScore

SuspiciousThreshold == 7000
FallbackScore == 7500

\* PresentAnalyzers that counts the classifier even when it has no score
PresentAnalyzers_Diluted(sightengine_score) == {"sightengine"} \cup HeuristicNames

\* analyzers that get a score and a weight: the classifier when it has a
\* score, every heuristic analyzer always
PresentAnalyzers(sightengine_score) ==
  (IF sightengine_score # NoneNum THEN {"sightengine"} ELSE {}) \cup HeuristicNames

\* IsSuspicious that also flags a contribution of exactly 70
IsSuspicious_Inclusive(sc, name) ==
  (IF name \in DOMAIN sc THEN sc[name] ELSE 10000) <= SuspiciousThreshold

\* scores.get(name, 100) < suspicious_threshold
IsSuspicious(sc, name) ==
  (IF name \in DOMAIN sc THEN sc[name] ELSE 10000) < SuspiciousThreshold

\* MultiFlagPenalty that never escalates
MultiFlagPenalty_None(num_susp) == 0

\* MultiFlagPenalty with the sign of the escalation reversed
MultiFlagPenalty_SignError(num_susp) ==
  IF num_susp >= 3 THEN -2000
  ELSE IF num_susp >= 2 THEN -1200
  ELSE IF num_susp >= 1 THEN -500
  ELSE 0

MultiFlagPenalty(num_susp) ==
  IF num_susp >= 3 THEN 2000
  ELSE IF num_susp >= 2 THEN 1200
  ELSE IF num_susp >= 1 THEN 500
  ELSE 0

\* ClampRound without the clamp to [0, 100]
ClampRound_Unclamped(num, den) == RoundDiv(num, den)

\* round(min(100, max(0, num / den)), 2)
ClampRound(num, den) ==
  IF num <= 0 THEN 0
  ELSE IF num >= 10000 * den THEN 10000
  ELSE RoundDiv(num, den)

\* the locals of _compute_composite_score and, in result, what it returns;
\* composite = weighted_sum / total_weight before the penalty
_compute_composite_score(sightengine_score, metadata_result, fingerprint_result, compression_result, audio_result, emotion_result, sync_result) ==
  LET heur == [metadata |-> metadata_result, fingerprint |-> fingerprint_result,
               compression |-> compression_result, audio |-> audio_result,
               emotion |-> emotion_result, sync |-> sync_result]
      present == PresentAnalyzers(sightengine_score)
      sc == [k \in present |->
               IF k = "sightengine" THEN sightengine_score ELSE _extract_score(heur[k])]
      tw == SumOver(present, WEIGHTS)
      ws == SumOver(present, [k \in present |-> sc[k] * WEIGHTS[k]])
      ns == Cardinality({k \in HeuristicNames : IsSuspicious(sc, k)})
  IN [scores |-> sc, total_weight |-> tw, weighted_sum |-> ws, num_suspicious |-> ns,
      result |-> IF tw = 0 THEN FallbackScore
                 ELSE ClampRound(ws - MultiFlagPenalty(ns) * tw, tw)]

\* _get_label with open lower bounds
_get_label_OpenBounds(score) ==
  IF score > 8000 THEN "Authentic"
  ELSE IF score > 5000 THEN "Suspicious"
  ELSE "Deepfake"

_get_label(score) ==
  IF score >= 8000 THEN "Authentic"
  ELSE IF score >= 5000 THEN "Suspicious"
  ELSE "Deepfake"

_label_to_status(l) ==
  IF l = "Authentic" THEN "authentic"
  ELSE IF l = "Deepfake" THEN "deepfake"
  ELSE "suspected"

---------------------------------------------------------------------------
(* routes/detection.py: anomaly synthesis *)

Anomaly(type, severity, confidence) ==
  [type |-> type, severity |-> severity, confidence |-> confidence]

\* confidence in hundredths of a point
_build_anomalies(sightengine_result, metadata_result, fingerprint_result, compression_result) ==
  LET prob == sightengine_result.deepfake_probability
      a_model ==
        IF sightengine_result.api_available /\ prob # NoneNum /\ prob > 5
        THEN <<Anomaly("model_prediction",
                       IF prob > 70 THEN "high" ELSE IF prob > 40 THEN "medium" ELSE "low",
                       prob * 100)>>
        ELSE <<>>
      md == IsDict(metadata_result)
      a_camera == IF md /\ Get(metadata_result, "missingCamera", FALSE)
                  THEN <<Anomaly("metadata_tampering", "high", 8500)>> ELSE <<>>
      a_time == IF md /\ Get(metadata_result, "irregularTimestamps", FALSE)
                THEN <<Anomaly("metadata_tampering", "medium", 7000)>> ELSE <<>>
      a_comp == IF md /\ Get(metadata_result, "suspiciousCompression", FALSE)
                THEN <<Anomaly("compression", "medium", 6500)>> ELSE <<>>
      fd == IsDict(fingerprint_result)
      a_finger ==
        IF fd /\ Truthy(Get(fingerprint_result, "source", NoneStr))
        THEN <<Anomaly("general", "high", Min(9900, Get(fingerprint_result, "probability", 5000)))>>
        ELSE IF fd /\ Get(fingerprint_result, "probability", 0) > 2000
        THEN <<Anomaly("general", "medium", Get(fingerprint_result, "probability", 0))>>
        ELSE <<>>
      cd == IsDict(compression_result)
      evidence == Get(compression_result, "evidence", <<>>)
      a_platform == IF cd /\ Truthy(Get(compression_result, "platform", NoneStr))
                    THEN <<Anomaly("compression", "low", 5500)>> ELSE <<>>
      a_blocking == IF cd /\ \E i \in 1..Len(evidence) : ContainsBlocking(evidence[i])
                    THEN <<Anomaly("texture_artifacts", "medium", 6000)>> ELSE <<>>
  IN a_model \o a_camera \o a_time \o a_comp \o a_finger \o a_platform \o a_blocking


---------------------------------------------------------------------------
(* routes/detection.py: orchestration of one pass *)

\* _safe_analyze that lets the exception of the analyzer through
_safe_analyze_Propagates(outcome) == outcome

\* try: return func(*args)  except Exception: return {}
_safe_analyze(outcome) == IF outcome = Raised THEN EmptyDict ELSE outcome

_default_result(default) == default

DefaultAudio == [py |-> "dict", cloned |-> FALSE, score |-> 0, details |-> "text"]
DefaultEmotion == [py |-> "dict", faceEmotion |-> NoneStr, audioEmotion |-> NoneStr, score |-> 0]
DefaultSync == [py |-> "dict", lipSyncMismatch |-> FALSE, mismatchScore |-> 0, details |-> "text"]

\* what calling the analyzer can do: return one of its results, or raise
AnalyzerOutcomes(name, mt) ==
  {Raised} \cup
  CASE name = "metadata" -> {analyze_metadata(mt, in) : in \in MetadataInputs}
    [] name = "fingerprint" -> {analyze_fingerprint(mt, in) : in \in FingerprintInputs}
    [] name = "compression" -> {analyze_compression(mt, in) : in \in CompressionInputs}
    [] name = "audio" -> {analyze_audio(mt, in) : in \in AudioInputs}
    [] name = "emotion" -> {analyze_emotion_mismatch(mt, in) : in \in EmotionInputs}
    [] name = "sync" -> {analyze_sync(mt, in) : in \in SyncInputs}

DefaultResults == [audio |-> DefaultAudio, emotion |-> DefaultEmotion, sync |-> DefaultSync]

\* Applicable that also runs the emotion and lip-sync analyzers on audio uploads
Applicable_EmotionSyncOnAudio(name, mt) ==
  CASE name \in {"metadata", "fingerprint", "compression"} -> TRUE
    [] name = "audio" -> mt \in {"audio", "video"}
    [] name \in {"emotion", "sync"} -> mt \in {"audio", "video"}

\* whether _detect_media wraps the analyzer in _safe_analyze for this media
\* type (otherwise the task is _default_result)
Applicable(name, mt) ==
  CASE name \in {"metadata", "fingerprint", "compression"} -> TRUE
    [] name = "audio" -> mt \in {"audio", "video"}
    [] name \in {"emotion", "sync"} -> mt = "video"

\* the task list built by _detect_media: the values task i (1..6) can complete with
TaskResults(i, mt) ==
  LET name == Heuristics[i]
  IN IF Applicable(name, mt)
     THEN {_safe_analyze(o) : o \in AnalyzerOutcomes(name, mt)}
     ELSE {_default_result(DefaultResults[name])}

\* the task list of one pass, per media type
TaskTable == [mt \in MediaTypes |-> [i \in 1..6 |-> TaskResults(i, mt)]]

Slots == {"sightengine"} \cup HeuristicNames

NoScores == [k \in {} |-> 0]

InitPass ==
  /\ pc = "idle"
  /\ media_type = NoneStr
  /\ next_task = 0
  /\ se_wait = FALSE
  /\ results = [k \in Slots |-> Pending]
  /\ scores = NoScores
  /\ total_weight = 0
  /\ weighted_sum = 0
  /\ num_suspicious = 0
  /\ trust_score = NoneNum
  /\ label = NoneStr
  /\ anomalies = <<>>

\* detect_image / detect_video / detect_audio: a request whose upload is
\* accepted enters _detect_media with fresh locals
Detect(mt) ==
  /\ pc \in {"idle", "done"}
  /\ pc' = "running"
  /\ media_type' = mt
  /\ next_task' = 0
  /\ se_wait' = FALSE
  /\ results' = [k \in Slots |-> Pending]
  /\ scores' = NoScores
  /\ total_weight' = 0
  /\ weighted_sum' = 0
  /\ num_suspicious' = 0
  /\ trust_score' = NoneNum
  /\ label' = NoneStr
  /\ anomalies' = <<>>
  /\ UNCHANGED notPassVars

\* task 0 runs first: analyze_deepfake returns at once without credentials or
\* when the file cannot be opened
SightengineReturn ==
  /\ pc = "running" /\ next_task = 0
  /\ \E o \in SightengineImmediate :
       results' = [results EXCEPT !["sightengine"] = analyze_deepfake(o)]
  /\ next_task' = 1
  /\ UNCHANGED <<pc, media_type, se_wait, scores, total_weight, weighted_sum,
                 num_suspicious, trust_score, label, anomalies>>
  /\ UNCHANGED notPassVars

\* ... or it suspends in client.post until the service answers
SightengineAwait ==
  /\ pc = "running" /\ next_task = 0
  /\ se_wait' = TRUE
  /\ next_task' = 1
  /\ UNCHANGED <<pc, media_type, results, scores, total_weight, weighted_sum,
                 num_suspicious, trust_score, label, anomalies>>
  /\ UNCHANGED notPassVars

\* tasks 1..6 have no suspension point: each runs to completion in list order
RunHeuristic ==
  /\ pc = "running" /\ next_task \in 1..6
  /\ \E r \in TaskTable[media_type][next_task] :
       results' = [results EXCEPT ![Heuristics[next_task]] = r]
  /\ next_task' = next_task + 1
  /\ UNCHANGED <<pc, media_type, se_wait, scores, total_weight, weighted_sum,
                 num_suspicious, trust_score, label, anomalies>>
  /\ UNCHANGED notPassVars

\* the answer of the service (or the timeout) resumes task 0
SightengineResponse ==
  /\ pc = "running" /\ se_wait /\ next_task = 7
  /\ \E o \in SightengineResponses :
       results' = [results EXCEPT !["sightengine"] = analyze_deepfake(o)]
  /\ se_wait' = FALSE
  /\ UNCHANGED <<pc, media_type, next_task, scores, total_weight, weighted_sum,
                 num_suspicious, trust_score, label, anomalies>>
  /\ UNCHANGED notPassVars

\* gather returns: composite score, label and anomalies of the pass
Score ==
  /\ pc = "running" /\ next_task = 7 /\ ~se_wait
  /\ LET c == _compute_composite_score(results["sightengine"].trust_score,
                 results["metadata"], results["fingerprint"], results["compression"],
                 results["audio"], results["emotion"], results["sync"])
     IN /\ scores' = c.scores
        /\ total_weight' = c.total_weight
        /\ weighted_sum' = c.weighted_sum
        /\ num_suspicious' = c.num_suspicious
        /\ trust_score' = c.result
        /\ label' = _get_label(c.result)
  /\ anomalies' = _build_anomalies(results["sightengine"], results["metadata"],
                                   results["fingerprint"], results["compression"])
  /\ pc' = "done"
  /\ UNCHANGED <<media_type, next_task, se_wait, results>>
  /\ UNCHANGED notPassVars

---------------------------------------------------------------------------
(* routes/live.py: one stream session *)

\* the text of a frame: base64 of a JPEG, the same behind a "data:image...,"
\* prefix, a data:image prefix without a comma, base64 with incorrect padding
FrameTexts == {"base64", "data_url", "data_url_no_comma", "bad_padding"}

\* DecodeFrame that accepts every text
DecodeFrame_NeverRaises(text) == [py |-> "bytes"]

\* lines 77-81: strip the data-URL prefix, then base64.b64decode
DecodeFrame(text) ==
  IF text = "data_url_no_comma" THEN Raised      \* split(",", 1)[1]: IndexError
  ELSE IF text = "bad_padding" THEN Raised       \* binascii.Error
  ELSE [py |-> "bytes"]

\* deepfake probabilities of the frames that are sampled
FrameDeepfakeProbs == {25, 55, 100}

\* what analyze_deepfake_from_bytes meets once the credentials are configured
FrameOutcomes ==
  {[kind |-> "exception"]}
    \cup {[kind |-> "response", body |-> b] :
            b \in {FailureBody, SuccessBodyNoDeepfake}
                    \cup {SuccessBody(p) : p \in FrameDeepfakeProbs}}

\* line 92
StreamLabel(score) ==
  IF score >= 7000 THEN "Authentic"
  ELSE IF score >= 4000 THEN "Suspicious"
  ELSE "Deepfake"

\* the JSON message sent for a frame; frame is the position of the frame in
\* the session (the code sends a random frameId)
FrameResponse(frame, score, lbl, status) ==
  [frame |-> frame, trustScore |-> score, label |-> lbl, status |-> status]

PlaceholderScore == 5000

NoFrame == [seq |-> 0, text |-> NoneStr]

InitLive ==
  /\ ws_state = "connecting"
  /\ client_state = "connected"
  /\ api_available = FALSE
  /\ inbox = <<>>
  /\ frames_sent = <<>>
  /\ data = NoFrame
  /\ frame_result = None
  /\ sent = <<>>

\* lines 37-55: the token is checked, the socket accepted and the
\* availability of the classifier read from the settings
WsConnect(token, credentials) ==
  /\ ws_state = "connecting"
  /\ IF token = "valid"
     THEN /\ ws_state' = "receive"
          /\ api_available' = credentials
     ELSE /\ ws_state' = "closed_4001"
          /\ UNCHANGED api_available
  /\ UNCHANGED <<client_state, inbox, frames_sent, data, frame_result, sent>>
  /\ UNCHANGED notLiveVars

\* the client sends one more frame on the accepted socket
ClientSend(text) ==
  /\ ws_state \in {"receive", "analyze"}
  /\ client_state = "connected"
  /\ Len(frames_sent) < MaxFrames
  /\ frames_sent' = Append(frames_sent, text)
  /\ inbox' = Append(inbox, [seq |-> Len(frames_sent) + 1, text |-> text])
  /\ UNCHANGED <<ws_state, client_state, api_available, data, frame_result, sent>>
  /\ UNCHANGED notLiveVars

\* the client goes away
ClientDisconnect ==
  /\ ws_state \in {"receive", "analyze"}
  /\ client_state = "connected"
  /\ client_state' = "disconnected"
  /\ UNCHANGED <<ws_state, api_available, inbox, frames_sent, data, frame_result, sent>>
  /\ UNCHANGED notLiveVars

\* ReceiveFrame that leaves the loop after a placeholder answer
ReceiveFrame_ClosesWhenNoApi ==
  /\ ws_state = "receive"
  /\ client_state = "connected"
  /\ inbox # <<>>
  /\ LET frame == Head(inbox)
     IN /\ inbox' = Tail(inbox)
        /\ IF ~api_available
           THEN /\ sent' = Append(sent, FrameResponse(frame.seq, PlaceholderScore, "Suspicious", "no_api"))
                /\ ws_state' = "ended"
                /\ UNCHANGED data
           ELSE IF DecodeFrame(frame.text) = Raised
           THEN /\ sent' = Append(sent, FrameResponse(frame.seq, PlaceholderScore, "Suspicious", "error"))
                /\ UNCHANGED <<ws_state, data>>
           ELSE /\ ws_state' = "analyze"
                /\ data' = frame
                /\ UNCHANGED sent
  /\ UNCHANGED <<client_state, api_available, frames_sent, frame_result>>
  /\ UNCHANGED notLiveVars

\* lines 59-81 and 110-119: one frame is received; without credentials it is
\* answered at once, a frame that does not decode is answered with an error,
\* any other frame goes to the classifier
ReceiveFrame ==
  /\ ws_state = "receive"
  /\ client_state = "connected"
  /\ inbox # <<>>
  /\ LET frame == Head(inbox)
     IN /\ inbox' = Tail(inbox)
        /\ IF ~api_available
           THEN /\ sent' = Append(sent, FrameResponse(frame.seq, PlaceholderScore, "Suspicious", "no_api"))
                /\ UNCHANGED <<ws_state, data>>
           ELSE IF DecodeFrame(frame.text) = Raised
           THEN /\ sent' = Append(sent, FrameResponse(frame.seq, PlaceholderScore, "Suspicious", "error"))
                /\ UNCHANGED <<ws_state, data>>
           ELSE /\ ws_state' = "analyze"
                /\ data' = frame
                /\ UNCHANGED sent
  /\ UNCHANGED <<client_state, api_available, frames_sent, frame_result>>
  /\ UNCHANGED notLiveVars

\* lines 84-108: the adapter returns and the frame is answered; if the client
\* is gone send_json raises, also in the handler of line 110, and the session ends
AnalyzeReturn(outcome) ==
  /\ ws_state = "analyze"
  /\ LET r == analyze_deepfake_from_bytes(outcome)
     IN /\ frame_result' = r
        /\ IF client_state = "disconnected"
           THEN /\ ws_state' = "ended"
                /\ UNCHANGED sent
           ELSE /\ ws_state' = "receive"
                /\ sent' = Append(sent,
                     IF r.api_available /\ r.trust_score # NoneNum
                     THEN FrameResponse(data.seq, r.trust_score, StreamLabel(r.trust_score), "analyzed")
                     ELSE FrameResponse(data.seq, PlaceholderScore, "Suspicious", "api_error"))
  /\ data' = NoFrame
  /\ UNCHANGED <<client_state, api_available, inbox, frames_sent>>
  /\ UNCHANGED notLiveVars

\* lines 121-124: receive_text raises WebSocketDisconnect and the loop is left
ReceiveDisconnect ==
  /\ ws_state = "receive"
  /\ client_state = "disconnected"
  /\ ws_state' = "ended"
  /\ UNCHANGED <<client_state, api_available, inbox, frames_sent, data, frame_result, sent>>
  /\ UNCHANGED notLiveVars

Tokens == {"missing", "invalid", "valid"}

NextLive ==
  \/ \E token \in Tokens, credentials \in BOOLEAN : WsConnect(token, credentials)
  \/ \E text \in FrameTexts : ClientSend(text)
  \/ ClientDisconnect
  \/ ReceiveFrame
  \/ \E outcome \in FrameOutcomes : AnalyzeReturn(outcome)
  \/ ReceiveDisconnect

---------------------------------------------------------------------------
(* routes/detection.py and utils/file_handler.py: one detection request *)

ALLOWED_IMAGE_EXTENSIONS == {".jpg", ".jpeg", ".png", ".gif", ".bmp", ".webp"}
ALLOWED_VIDEO_EXTENSIONS == {".mp4", ".avi", ".mov", ".mkv", ".webm", ".flv"}
ALLOWED_AUDIO_EXTENSIONS == {".mp3", ".wav", ".flac", ".aac", ".ogg", ".m4a"}

\* suffixes of the uploaded file names that are sampled ("" is no suffix)
Suffixes == {".jpg", ".JPG", ".png", ".mp4", ".mov", ".mp3", ".exe", ""}

\* str.lower() on the sampled suffixes
Lower(suffix) == IF suffix = ".JPG" THEN ".jpg" ELSE suffix

\* Path(filename).suffix.lower()
get_file_extension(suffix) == Lower(suffix)

\* is_valid_file_type that accepts the extensions of every media kind
is_valid_file_type_AnyKind(suffix, mt) ==
  get_file_extension(suffix) \in
    ALLOWED_IMAGE_EXTENSIONS \cup ALLOWED_VIDEO_EXTENSIONS \cup ALLOWED_AUDIO_EXTENSIONS

is_valid_file_type(suffix, mt) ==
  LET ext == get_file_extension(suffix)
  IN IF mt = "image" THEN ext \in ALLOWED_IMAGE_EXTENSIONS
     ELSE IF mt = "video" THEN ext \in ALLOWED_VIDEO_EXTENSIONS
     ELSE IF mt = "audio" THEN ext \in ALLOWED_AUDIO_EXTENSIONS
     ELSE FALSE

max_file_size_mb == 500

\* settings.max_file_size_mb * 1024 * 1024
MaxSizeBytes == max_file_size_mb * 1024 * 1024

\* the Content-Type of the part: None, or major/minor
ContentTypes ==
  {None} \cup {[py |-> "str", major |-> m, minor |-> "x"] :
                 m \in {"image", "video", "audio", "application"}}

\* not file.content_type or not file.content_type.startswith(kind + "/")
ContentTypeRejected(content_type, kind) ==
  content_type = None \/ content_type.major # kind

UploadSizes == {0, 1024, MaxSizeBytes, MaxSizeBytes + 1}

Uploads == [content_type : ContentTypes, suffix : Suffixes, size : UploadSizes]

NoUpload == [content_type |-> None, suffix |-> "", size |-> 0]

InitUpload ==
  /\ up_pc = "idle"
  /\ upload = [kind |-> NoneStr, file |-> NoUpload]
  /\ http_status = 0
  /\ file_written = FALSE
  /\ analyzers_invoked = FALSE
  /\ record_stored = FALSE

\* a request arrives at POST /image, /video or /audio
UploadRequest(kind, file) ==
  /\ up_pc \in {"idle", "responded"}
  /\ up_pc' = "route"
  /\ upload' = [kind |-> kind, file |-> file]
  /\ http_status' = 0
  /\ file_written' = FALSE
  /\ analyzers_invoked' = FALSE
  /\ record_stored' = FALSE
  /\ UNCHANGED notUploadVars

\* detect_image / detect_video / detect_audio: the content type is checked
\* before _detect_media is entered
CheckContentType ==
  /\ up_pc = "route"
  /\ IF ContentTypeRejected(upload.file.content_type, upload.kind)
     THEN up_pc' = "responded" /\ http_status' = 400
     ELSE up_pc' = "save" /\ UNCHANGED http_status
  /\ UNCHANGED <<upload, file_written, analyzers_invoked, record_stored>>
  /\ UNCHANGED notUploadVars

\* save_uploaded_file: the ValueError of the type check or of the size check
\* becomes a 400 in _detect_media (line 381); otherwise the file is written
SaveUploadedFile ==
  /\ up_pc = "save"
  /\ IF ~is_valid_file_type(upload.file.suffix, upload.kind)
     THEN up_pc' = "responded" /\ http_status' = 400 /\ UNCHANGED file_written
     ELSE IF upload.file.size > MaxSizeBytes
     THEN up_pc' = "responded" /\ http_status' = 400 /\ UNCHANGED file_written
     ELSE up_pc' = "gather" /\ file_written' = TRUE /\ UNCHANGED http_status
  /\ UNCHANGED <<upload, analyzers_invoked, record_stored>>
  /\ UNCHANGED notUploadVars

\* lines 288-336: the analyzers run and the pass is scored
GatherAndScore ==
  /\ up_pc = "gather"
  /\ up_pc' = "store"
  /\ analyzers_invoked' = TRUE
  /\ UNCHANGED <<upload, http_status, file_written, record_stored>>
  /\ UNCHANGED notUploadVars

\* lines 338-389: the record is inserted and the response built; an exception
\* of the store becomes a 500
StoreRecord(stored) ==
  /\ up_pc = "store"
  /\ up_pc' = "responded"
  /\ record_stored' = stored
  /\ http_status' = IF stored THEN 200 ELSE 500
  /\ UNCHANGED <<upload, file_written, analyzers_invoked>>
  /\ UNCHANGED notUploadVars

NextUpload ==
  \/ \E kind \in MediaTypes, file \in Uploads : UploadRequest(kind, file)
  \/ CheckContentType
  \/ SaveUploadedFile
  \/ GatherAndScore
  \/ \E stored \in BOOLEAN : StoreRecord(stored)

---------------------------------------------------------------------------
(* models/detection.py: the Anomaly schema *)

AnomalyTypes ==
  {"face_blending", "texture_artifacts", "lighting_inconsistency",
   "audio_sync_mismatch", "metadata_tampering", "model_prediction", "general"}

Severities == {"low", "medium", "high"}

\* the validation of the pydantic model; confidence in hundredths of a point
ValidAnomaly(a) ==
  /\ a.type \in AnomalyTypes
  /\ a.severity \in Severities
  /\ a.confidence >= 0 /\ a.confidence <= 10000

\* Anomaly(type=..., severity=..., description=..., confidence=...): the
\* constructor raises ValidationError on a value outside the schema
NewAnomaly(type, severity, confidence) ==
  IF ValidAnomaly(Anomaly(type, severity, confidence))
  THEN Anomaly(type, severity, confidence)
  ELSE Raised

---------------------------------------------------------------------------
(* services/model_engine.py of backend/ and of mediaguardx/backend/ *)

Trees == {"backend", "mediaguardx"}

get_label_from_score(score) ==
  IF score >= 7000 THEN "Authentic"
  ELSE IF score >= 4000 THEN "Suspicious"
  ELSE "Deepfake"

\* the list built after the score: its elements, one of which may be the
\* exception of the constructor
EngineAnomalies(tree, score, is_model) ==
  LET severity == IF score < 4000 THEN "high" ELSE "medium"
      conf == 10000 - score
  IN IF score >= 7000 THEN <<>>
     ELSE IF tree = "backend"
     THEN <<NewAnomaly(IF is_model THEN "model_prediction" ELSE "placeholder", severity, conf)>>
     ELSE IF is_model
     THEN <<NewAnomaly("model_prediction", severity, conf)>>
          \o (IF score < 5000
              THEN <<NewAnomaly("face_blending", severity, Min(10000, (conf * 8) \div 10))>>
              ELSE <<>>)
     ELSE <<NewAnomaly("general", severity, conf)>>

AnyRaised(seq) == \E i \in 1..Len(seq) : seq[i] = Raised

EngineResult(score, anoms) ==
  [py |-> "dict", trust_score |-> score, label |-> get_label_from_score(score),
   anomalies |-> anoms, heatmap_url |-> "/heatmaps/heatmap.png"]

\* values of (int(h[0:8], 16) + file_size % 1000) % 101 that are sampled
HashBases == {0, 39, 40, 50, 69, 70, 100}

\* artifact: "absent", "corrupt" (the load raises) or "ok";
\* prob_real: what the prediction returns, in 1/10000, or NoneNum if it raises;
\* readable: the file can be sized and read; base: what the md5 formula gives
EngineInputs ==
  [media_type : MediaTypes, artifact : {"absent", "corrupt", "ok"},
   prob_real : {NoneNum, 3999, 5000, 7000},
   readable : BOOLEAN, base : HashBases]

NoEngineInput ==
  [media_type |-> NoneStr, artifact |-> "absent", prob_real |-> NoneNum,
   readable |-> FALSE, base |-> 0]

\* load_model_if_available(): whether a model is loaded by the call
load_model_if_available(ml, in) == ml /\ in.artifact = "ok"

\* lines 218-229 (390-400): the md5-based score, 50.0 if the file cannot be read
FallbackTrust(in) == IF in.readable THEN in.base * 100 ELSE 5000

\* what analyze_media returns, or Raised
analyze_media(tree, ml, model, in) ==
  LET model_loaded == model # None \/ load_model_if_available(ml, in)
      prob == IF in.media_type \in {"image", "video"} THEN in.prob_real ELSE 5000
      m_anoms == EngineAnomalies(tree, prob, TRUE)
      f_score == FallbackTrust(in)
      f_anoms == EngineAnomalies(tree, f_score, FALSE)
  IN IF model_loaded /\ ml /\ prob # NoneNum /\ ~AnyRaised(m_anoms)
     THEN EngineResult(prob, m_anoms)
     ELSE IF AnyRaised(f_anoms) THEN Raised
     ELSE EngineResult(f_score, f_anoms)

InitEngine ==
  /\ engine_pc = "unimported"
  /\ engine_tree = NoneStr
  /\ ML_AVAILABLE = FALSE
  /\ _MODEL = None
  /\ engine_input = NoEngineInput
  /\ engine_result = None
  /\ model_loads = 0
  /\ model_was_loaded = FALSE

\* lines 17-33: the module is imported, with or without the ML libraries
ImportEngine(tree, ml) ==
  /\ engine_pc = "unimported"
  /\ engine_pc' = "ready"
  /\ engine_tree' = tree
  /\ ML_AVAILABLE' = ml
  /\ UNCHANGED <<_MODEL, engine_input, engine_result, model_loads, model_was_loaded>>
  /\ UNCHANGED notEngineVars

\* every call runs the loader, whatever _MODEL is
LoadAttempted_Always(model) == TRUE

\* line 195 (358): `_MODEL is not None or load_model_if_available()` runs the
\* loader only when the left operand is false
LoadAttempted(model) == model = None

\* one call of analyze_media.  The coroutine has no await and nothing in the
\* repository runs it on a thread, so the event loop runs each call from its
\* first line to its return before it starts another: the interleavings of
\* concurrent calls are the orders of whole calls.
AnalyzeMedia(in) ==
  /\ engine_pc = "ready"
  /\ engine_input' = in
  /\ LET loads == LoadAttempted(_MODEL) /\ load_model_if_available(ML_AVAILABLE, in)
     IN /\ _MODEL' = IF loads THEN [py |-> "model"] ELSE _MODEL
        /\ model_loads' = IF loads THEN model_loads + 1 ELSE model_loads
  /\ model_was_loaded' = (_MODEL # None)
  /\ engine_result' = analyze_media(engine_tree, ML_AVAILABLE, _MODEL, in)
  /\ UNCHANGED <<engine_pc, engine_tree, ML_AVAILABLE>>
  /\ UNCHANGED notEngineVars

NextEngine ==
  \/ \E tree \in Trees, ml \in BOOLEAN : ImportEngine(tree, ml)
  \/ \E in \in EngineInputs : AnalyzeMedia(in)

---------------------------------------------------------------------------
(* mediaguardx/backend/routes/detection.py: _detect_media *)

\* what random.randint(a, b) is sampled at
RandomEnds(a, b) == {a, b}

\* the label of lines 49-54
DemoLabel(score) ==
  IF score >= 80 THEN "Authentic"
  ELSE IF score >= 50 THEN "Suspicious"
  ELSE "Deepfake"

\* the response for an accepted upload, given the three draws
DemoDetect(score, c1, c2) ==
  [trust_score |-> score * 100, label |-> DemoLabel(score),
   anomalies |->
     (IF score < 90 THEN <<Anomaly("compression", "low", c1 * 100)>> ELSE <<>>)
     \o (IF score < 80 THEN <<Anomaly("metadata", "medium", c2 * 100)>> ELSE <<>>)]

InitDemo == demo_runs = <<>>

\* the same bytes are uploaded once more to the same endpoint
DemoRequest ==
  /\ Len(demo_runs) < MaxRuns
  /\ \E score \in 70..95, c1 \in RandomEnds(60, 80), c2 \in RandomEnds(70, 85) :
       demo_runs' = Append(demo_runs, DemoDetect(score, c1, c2))
  /\ UNCHANGED notDemoVars

NextDemo == DemoRequest

---------------------------------------------------------------------------
(* Single calls of analyze_sync, analyze_fingerprint and analyze_audio *)

\* standard deviations of the mouth motion that are sampled, in hundredths:
\* 0, 0.01, 25.0, 25.01 and 10.0 * k
SyncStds == {0, 1, 2500, 2501} \cup {k * 1000 : k \in 0..MaxMotionStd}

SyncCallInputs ==
  [motion : BOOLEAN, onsets : BOOLEAN, activity : BOOLEAN,
   density : {"high", "mid", "low"}, mean : {"low", "mid", "high"},
   std : SyncStds]

\* every flag combination with every sampled flatness
AudioCallInputs ==
  [librosa_ok : BOOLEAN, loaded : BOOLEAN,
   spec_flat : {SpecFlatLevels[i] : i \in 1..Len(SpecFlatLevels)},
   zcr_low : BOOLEAN, mfcc_low : BOOLEAN, pitch_low : BOOLEAN,
   rolloff_low : BOOLEAN]

InitCall ==
  /\ called = NoneStr
  /\ call_input = None
  /\ call_result = None

CallSync(in) ==
  /\ called' = "analyze_sync"
  /\ call_input' = in
  /\ call_result' = analyze_sync("video", in)
  /\ UNCHANGED notCallVars

CallFingerprint(mt, in) ==
  /\ called' = "analyze_fingerprint"
  /\ call_input' = in
  /\ call_result' = analyze_fingerprint(mt, in)
  /\ UNCHANGED notCallVars

CallAudio(mt, in) ==
  /\ called' = "analyze_audio"
  /\ call_input' = in
  /\ call_result' = analyze_audio(mt, in)
  /\ UNCHANGED notCallVars

NextCall ==
  \/ \E in \in SyncCallInputs : CallSync(in)
  \/ \E mt \in {"image", "video"}, in \in FingerprintInputs : CallFingerprint(mt, in)
  \/ \E mt \in {"audio", "video"}, in \in AudioCallInputs : CallAudio(mt, in)

---------------------------------------------------------------------------
(* mediaguardx/backend/services/model_engine.py: _generate_gradcam *)

\* the stages of the try block, in program order: lines 174-177, 190, 191,
\* 192, 195-198, 201-202, 204-205, 208-228, 231-234, 237
GradcamStages ==
  <<"open", "layer", "register_forward", "register_backward", "forward",
    "backward", "remove", "cam", "save", "regions">>

StageIndex(st) == CHOOSE i \in 1..Len(GradcamStages) : GradcamStages[i] = st

\* the stage that raises, or "none"; handle.remove() does not raise
RaisingStages == {GradcamStages[i] : i \in 1..Len(GradcamStages)} \ {"remove"}

\* the stage was completed before the call left the try block
Completed(st, raises_at) ==
  raises_at = "none" \/ StageIndex(st) < StageIndex(raises_at)

\* the hooks of invocation `call` that are on the layer when it returns:
\* fh and bh are registered at lines 191-192 and removed at lines 204-205,
\* which an exception raised before them skips (the except clause of lines
\* 241-243 removes nothing)
HooksLeft(call, raises_at) ==
  IF Completed("remove", raises_at) THEN {}
  ELSE (IF Completed("register_forward", raises_at)
        THEN {[call |-> call, kind |-> "forward"]} ELSE {})
       \cup (IF Completed("register_backward", raises_at)
             THEN {[call |-> call, kind |-> "backward"]} ELSE {})

InitGradcam ==
  /\ gradcam_calls = 0
  /\ hooks = {}
  /\ gradcam_raised_at = NoneStr
  /\ gradcam_result = NoneStr

\* the module of the mediaguardx/ tree is imported, with or without the ML
\* libraries, and the artifact is loaded (or not) by the first analyze_media
EngineReady(ml, loaded) ==
  /\ engine_pc = "unimported"
  /\ engine_pc' = "ready"
  /\ engine_tree' = "mediaguardx"
  /\ ML_AVAILABLE' = ml
  /\ _MODEL' = IF ml /\ loaded THEN [py |-> "model"] ELSE None
  /\ model_loads' = IF ml /\ loaded THEN 1 ELSE 0
  /\ UNCHANGED <<engine_input, engine_result, model_was_loaded>>
  /\ UNCHANGED gradcamVars
  /\ UNCHANGED notGradcamVars

\* one invocation of _generate_gradcam (synchronous: it runs to its return)
GenerateGradcam(raises_at) ==
  /\ engine_pc = "ready"
  /\ gradcam_calls < MaxGradcamCalls
  /\ gradcam_calls' = gradcam_calls + 1
  /\ IF ~ML_AVAILABLE \/ _MODEL = None
     THEN /\ gradcam_raised_at' = NoneStr
          /\ gradcam_result' = "placeholder"
          /\ hooks' = hooks
     ELSE /\ gradcam_raised_at' = raises_at
          /\ gradcam_result' = IF raises_at = "none" THEN "heatmap" ELSE "placeholder"
          /\ hooks' = hooks \cup HooksLeft(gradcam_calls + 1, raises_at)
  /\ UNCHANGED engineVars
  /\ UNCHANGED notGradcamVars

NextGradcam ==
  \/ \E ml \in BOOLEAN, loaded \in BOOLEAN : EngineReady(ml, loaded)
  \/ \E raises_at \in RaisingStages \cup {"none"} : GenerateGradcam(raises_at)

---------------------------------------------------------------------------
(* routes/auth.py: login *)

\* config.py
max_failed_login_attempts == 5
account_lockout_minutes == 30

\* the requests that can be in flight together
Requests == {"a", "b"}

\* the document register inserts (lines 33-43); nothing in the tree writes
\* is_active of db.users afterwards
NewUser ==
  [failed_login_attempts |-> 0, is_locked |-> FALSE, locked_until |-> NoneNum,
   is_active |-> TRUE]

\* update_one(..., {"$set": upd}) applied to a document
Set(doc, upd) == [k \in DOMAIN doc |-> IF k \in DOMAIN upd THEN upd[k] ELSE doc[k]]

\* pc: idle, find (awaiting find_one), unlock / fail_update / reset_update
\* (awaiting that update_one), done; ok: the password is the right one;
\* found: the document find_one returned; pending: the $set of the awaited
\* update; status: the HTTP status; checked_at: utcnow() at the lock check
NoLogin ==
  [pc |-> "idle", ok |-> FALSE, found |-> None, pending |-> None, status |-> 0,
   checked_at |-> 0]

InitLogin ==
  /\ user_doc = NewUser
  /\ now = 0
  /\ login = [r \in Requests |-> NoLogin]
  /\ logins_started = 0
  /\ consecutive_failed = 0
  /\ wrong_checked = 0

\* LockReached that locks one attempt late
LockReached_OneLate(failed_attempts) == failed_attempts > max_failed_login_attempts

\* line 113
LockReached(failed_attempts) == failed_attempts >= max_failed_login_attempts

Responded(r, found, code, at) ==
  [login EXCEPT ![r] = [@ EXCEPT !.pc = "done", !.found = found, !.status = code,
                                  !.checked_at = at, !.pending = None]]

Awaiting(r, found, pc_, upd, at) ==
  [login EXCEPT ![r] = [@ EXCEPT !.pc = pc_, !.found = found, !.pending = upd,
                                  !.checked_at = at]]

\* lines 106-167 up to the next await, for the local object `user`; base is
\* the count of consecutive wrong passwords before this verification
VerifyPassword(r, found, user, base, at) ==
  IF ~login[r].ok
  THEN LET failed_attempts == user.failed_login_attempts + 1
           is_locked == LockReached(failed_attempts)
           locked_until == IF is_locked THEN now + account_lockout_minutes ELSE NoneNum
       IN /\ login' = Awaiting(r, found, "fail_update",
                               [failed_login_attempts |-> failed_attempts,
                                is_locked |-> is_locked, locked_until |-> locked_until], at)
          /\ consecutive_failed' = base + 1
          /\ wrong_checked' = wrong_checked + 1
  ELSE /\ consecutive_failed' = 0
       /\ wrong_checked' = wrong_checked
       /\ IF ~user.is_active THEN login' = Responded(r, found, 403, at)
          ELSE IF user.failed_login_attempts > 0
          THEN login' = Awaiting(r, found, "reset_update", [failed_login_attempts |-> 0], at)
          ELSE login' = Responded(r, found, 200, at)

\* a client posts the credentials
LoginRequest(r, ok) ==
  /\ login[r].pc \in {"idle", "done"}
  /\ logins_started < MaxLogins
  /\ logins_started' = logins_started + 1
  /\ login' = [login EXCEPT ![r] = [NoLogin EXCEPT !.pc = "find", !.ok = ok]]
  /\ UNCHANGED <<user_doc, now, consecutive_failed, wrong_checked>>
  /\ UNCHANGED notLoginVars

\* line 76: find_one returns the document; lines 77-105 and, if the account
\* is not locked, 106-167 run up to the next await
FindUser(r) ==
  /\ login[r].pc = "find"
  /\ LET user == user_doc
     IN IF user.is_locked /\ user.locked_until # NoneNum /\ user.locked_until > now
        THEN /\ login' = Responded(r, user, 403, now)
             /\ UNCHANGED <<consecutive_failed, wrong_checked>>
        ELSE IF user.is_locked
        THEN /\ login' = Awaiting(r, user, "unlock",
                                  [is_locked |-> FALSE, failed_login_attempts |-> 0,
                                   locked_until |-> NoneNum], now)
             /\ UNCHANGED <<consecutive_failed, wrong_checked>>
        ELSE VerifyPassword(r, user, user, consecutive_failed, now)
  /\ UNCHANGED <<user_doc, now, logins_started>>
  /\ UNCHANGED notLoginVars

\* lines 99-104: the update of the expired lock is applied, the local object
\* is reset, and the handler goes on to the password
UnlockUpdate(r) ==
  /\ login[r].pc = "unlock"
  /\ user_doc' = Set(user_doc, login[r].pending)
  /\ VerifyPassword(r, login[r].found,
                    [login[r].found EXCEPT !.is_locked = FALSE, !.failed_login_attempts = 0],
                    0, login[r].checked_at)
  /\ UNCHANGED <<now, logins_started>>
  /\ UNCHANGED notLoginVars

\* lines 118-133: the update of the failed attempt is applied, then 401
FailedUpdate(r) ==
  /\ login[r].pc = "fail_update"
  /\ user_doc' = Set(user_doc, login[r].pending)
  /\ login' = Responded(r, login[r].found, 401, login[r].checked_at)
  /\ UNCHANGED <<now, logins_started, consecutive_failed, wrong_checked>>
  /\ UNCHANGED notLoginVars

\* lines 143-167: the reset of the counter is applied, then the token
ResetUpdate(r) ==
  /\ login[r].pc = "reset_update"
  /\ user_doc' = Set(user_doc, login[r].pending)
  /\ login' = Responded(r, login[r].found, 200, login[r].checked_at)
  /\ UNCHANGED <<now, logins_started, consecutive_failed, wrong_checked>>
  /\ UNCHANGED notLoginVars

\* time passes: half a lockout period or a whole one
Advance(d) ==
  /\ now + d <= MaxClock
  /\ now' = now + d
  /\ UNCHANGED <<user_doc, login, logins_started, consecutive_failed, wrong_checked>>
  /\ UNCHANGED notLoginVars

LoginStep(r) ==
  \/ \E ok \in BOOLEAN : LoginRequest(r, ok)
  \/ FindUser(r)
  \/ UnlockUpdate(r)
  \/ FailedUpdate(r)
  \/ ResetUpdate(r)

ClockStep == \E d \in {account_lockout_minutes \div 2, account_lockout_minutes} : Advance(d)

\* one request at a time: every request is made by client a, after its last answer
NextLogin ==
  \/ LoginStep("a")
  \/ ClockStep

\* requests of a and b interleave at their awaits
NextLoginConcurrent ==
  \/ \E r \in Requests : LoginStep(r)
  \/ ClockStep

---------------------------------------------------------------------------
(* The specifications *)

Init == InitPass /\ InitLive /\ InitUpload /\ InitEngine /\ InitDemo /\ InitCall /\ InitGradcam
        /\ InitLogin

Next ==
  \/ \E mt \in MediaTypes : Detect(mt)
  \/ SightengineReturn
  \/ SightengineAwait
  \/ RunHeuristic
  \/ SightengineResponse
  \/ Score

Spec == Init /\ [][Next]_vars

SpecLive == Init /\ [][NextLive]_vars

SpecUpload == Init /\ [][NextUpload]_vars

SpecEngine == Init /\ [][NextEngine]_vars

SpecDemo == Init /\ [][NextDemo]_vars

SpecAnalyzers == Init /\ [][NextCall]_vars

SpecGradcam == Init /\ [][NextGradcam]_vars

SpecLogin == Init /\ [][NextLogin]_vars

SpecLoginConcurrent == Init /\ [][NextLoginConcurrent]_vars

TypeOK ==
  /\ pc \in {"idle", "running", "done"}
  /\ next_task \in 0..7
  /\ pc = "done" => trust_score \in 0..10000


---------------------------------------------------------------------------
(* Properties of the fusion *)

Done == pc = "done"

\* an analyzer whose invocation failed: it raised ({} from _safe_analyze) or returned None
Unavailable(r) == r = None \/ r = EmptyDict

ClassifierAbsent == results["sightengine"].trust_score = NoneNum

Contribution(n) == _extract_score(results[n])

\* C1: the composite score of every scored pass lies in [0, 100]
Thm_C1_ScoreInRange == Done => trust_score \in 0..10000

\* a pass whose penalised weighted average is negative and is clamped to 0
Wit_C1_ClampedAtZero ==
  /\ Done
  /\ weighted_sum < MultiFlagPenalty(num_suspicious) * total_weight
  /\ trust_score = 0

\* C2: when the classifier has no score and all six heuristic analyzers are
\* unavailable, the composite score is the fallback constant 75.0
Cex_C2_FallbackWhenAllUnavailable ==
  (Done /\ ClassifierAbsent /\ \A n \in HeuristicNames : Unavailable(results[n]))
    => trust_score = FallbackScore

\* C3: a heuristic analyzer that failed has no entry in scores and its weight
\* is not part of total_weight
Cex_C3_FailedAnalyzerExcluded ==
  Done =>
    /\ \A n \in HeuristicNames : Unavailable(results[n]) => n \notin DOMAIN scores
    /\ total_weight =
         SumOver({n \in HeuristicNames : ~Unavailable(results[n])}
                   \cup (IF ClassifierAbsent THEN {} ELSE {"sightengine"}), WEIGHTS)

\* C4: without a classifier score the composite before the penalty is the sum
\* of weight x contribution of the six heuristic analyzers over the sum of
\* their weights (0.70), the classifier entering neither; so six contributions
\* of at least 80 give a score of at least 80
Thm_C4_ClassifierWeightLeftOut ==
  (Done /\ ClassifierAbsent) =>
    /\ "sightengine" \notin DOMAIN scores
    /\ total_weight = 20 + 18 + 12 + 8 + 6 + 6
    /\ weighted_sum = 20 * Contribution("metadata") + 18 * Contribution("fingerprint")
                      + 12 * Contribution("compression") + 8 * Contribution("audio")
                      + 6 * Contribution("emotion") + 6 * Contribution("sync")
    /\ (\A n \in HeuristicNames : Contribution(n) >= 8000) => trust_score >= 8000

\* the classifier timed out and every heuristic analyzer is confidently authentic
Wit_C4_AuthenticWithoutClassifier ==
  /\ Done /\ ClassifierAbsent
  /\ \A n \in HeuristicNames : Contribution(n) >= 8000
  /\ \E n \in HeuristicNames : Contribution(n) = 10000
  /\ label = "Authentic"


\* the composite score of an evidence bundle
CompositeOf(res) ==
  _compute_composite_score(res["sightengine"].trust_score, res["metadata"],
                           res["fingerprint"], res["compression"], res["audio"],
                           res["emotion"], res["sync"]).result

TaskIndex(n) == CHOOSE i \in 1..Len(Heuristics) : Heuristics[i] = n

\* the analyzers with a risk-like raw value and the field that holds it
RiskField ==
  [audio |-> "score", emotion |-> "score", sync |-> "mismatchScore",
   fingerprint |-> "probability"]

HasRisk(n, r) == IsDict(r) /\ Has(r, RiskField[n]) /\ (n = "fingerprint" => Has(r, "source"))

\* r2 is a result of analyzer n like r1 but for a lower risk-like raw value
LowerRisk(n, r1, r2) ==
  /\ HasRisk(n, r1) /\ HasRisk(n, r2)
  /\ r2[RiskField[n]] < r1[RiskField[n]]
  /\ n = "fingerprint" => r2.source = r1.source

\* C5: replacing the result of the audio, emotion, lip-sync or fingerprint
\* analyzer by one with a lower risk-like raw value (same fingerprint source),
\* all other results fixed, never lowers the composite score
Thm_C5_Monotone ==
  Done =>
    \A n \in DOMAIN RiskField :
      \A r2 \in TaskTable[media_type][TaskIndex(n)] :
        LowerRisk(n, results[n], r2)
          => CompositeOf([results EXCEPT ![n] = r2]) >= trust_score

\* a pass for which a lower clone-likelihood exists and strictly raises the score
Wit_C5_LowerRiskRaisesScore ==
  /\ Done
  /\ \E r2 \in TaskTable[media_type][TaskIndex("audio")] :
       /\ LowerRisk("audio", results["audio"], r2)
       /\ CompositeOf([results EXCEPT !["audio"] = r2]) > trust_score


Flagged == {n \in HeuristicNames : Contribution(n) < SuspiciousThreshold}

\* the analyzers that contribute to the pass, with their contributions
Contributors == HeuristicNames \cup (IF ClassifierAbsent THEN {} ELSE {"sightengine"})
ContributionOf(k) ==
  IF k = "sightengine" THEN results["sightengine"].trust_score ELSE Contribution(k)

\* exactly three heuristic analyzers below 70, every other analyzer at 100
ThreeFlaggedRestNeutral ==
  /\ Cardinality(Flagged) = 3
  /\ \A k \in Contributors \ Flagged : ContributionOf(k) = 10000

\* C6: with exactly three heuristic analyzers below the suspicious threshold
\* and every other analyzer neutral, the composite score is strictly below
\* the unweighted average of the contributions
Thm_C6_MultiFlagEscalation ==
  (Done /\ ThreeFlaggedRestNeutral) =>
    trust_score * Cardinality(Contributors)
      < SumOver(Contributors, [k \in Contributors |-> ContributionOf(k)])

\* such a pass, scored with the penalty of 20 points
Wit_C6_ThreeFlagged ==
  /\ Done /\ ThreeFlaggedRestNeutral
  /\ num_suspicious = 3
  /\ trust_score * total_weight < weighted_sum


---------------------------------------------------------------------------
(* Properties of the label *)

\* C7: the label of a scored pass is Authentic from 80 up, Suspicious from 50
\* up to (not including) 80, Deepfake below 50: a score exactly at a cut point
\* gets the higher label
Thm_C7_LabelBoundary ==
  Done =>
    /\ label \in {"Authentic", "Suspicious", "Deepfake"}
    /\ label = "Authentic" <=> trust_score >= 8000
    /\ label = "Suspicious" <=> (trust_score >= 5000 /\ trust_score < 8000)
    /\ label = "Deepfake" <=> trust_score < 5000

\* a pass scored exactly 80.00 and labelled Authentic
Wit_C7_AtHighThreshold == Done /\ trust_score = 8000 /\ label = "Authentic"

\* a pass scored exactly 50.00 and labelled Suspicious
Wit_C7_AtMidThreshold == Done /\ trust_score = 5000 /\ label = "Suspicious"


---------------------------------------------------------------------------
(* Scenarios *)

HasAnomaly(type) == \E i \in 1..Len(anomalies) : anomalies[i].type = type

\* an image without camera metadata, with blocking artifacts, that the
\* classifier gives a deepfake probability of 0.8 (trust 20)
NoMetadataBlockingClassifier80 ==
  /\ media_type = "image"
  /\ IsDict(results["metadata"]) /\ Has(results["metadata"], "missingCamera")
  /\ results["metadata"].missingCamera
  /\ IsDict(results["compression"]) /\ Has(results["compression"], "evidence")
  /\ \E i \in 1..Len(results["compression"].evidence) :
       ContainsBlocking(results["compression"].evidence[i])
  /\ results["sightengine"].api_available
  /\ results["sightengine"].deepfake_probability = 80
  /\ results["sightengine"].trust_score = 2000

\* C8: such an image is labelled Deepfake whatever the fingerprint result,
\* with a metadata_tampering anomaly and a model_prediction anomaly
Thm_C8_DeepfakeScenario ==
  (Done /\ NoMetadataBlockingClassifier80) =>
    /\ label = "Deepfake"
    /\ HasAnomaly("metadata_tampering")
    /\ HasAnomaly("model_prediction")

\* the scenario with the most favourable fingerprint result (unavailable, 85)
Wit_C8_ScenarioBestFingerprint ==
  /\ Done /\ NoMetadataBlockingClassifier80
  /\ Unavailable(results["fingerprint"])
  /\ label = "Deepfake"

\* C9: on an audio upload the emotion and lip-sync slots hold the neutral
\* defaults (mismatch 0, contribution 100), not unavailable markers, and
\* neither analyzer is flagged
Thm_C9_AudioNeutralDefaults ==
  (media_type = "audio" /\ next_task = 7) =>
    /\ results["emotion"] = DefaultEmotion /\ results["sync"] = DefaultSync
    /\ ~Unavailable(results["emotion"]) /\ ~Unavailable(results["sync"])
    /\ Done => /\ scores["emotion"] = 10000 /\ scores["sync"] = 10000
               /\ "emotion" \notin Flagged /\ "sync" \notin Flagged

\* a scored audio upload whose audio analyzer ran
Wit_C9_AudioUploadScored ==
  /\ Done /\ media_type = "audio"
  /\ IsDict(results["audio"]) /\ Has(results["audio"], "cloned")
  /\ results["emotion"] = DefaultEmotion

\* the analyzers that do not apply to a media kind
NotApplicable ==
  [image |-> {"audio", "emotion", "sync"},
   audio |-> {"emotion", "sync", "fingerprint", "compression"},
   video |-> {}]

\* C10: every analyzer that does not apply to the media kind contributes 100
Cex_C10_NotApplicableContributes100 ==
  Done => \A n \in NotApplicable[media_type] : scores[n] = 10000

---------------------------------------------------------------------------
(* Properties of the orchestration *)

Labels == {"Authentic", "Suspicious", "Deepfake"}

\* what the slot of an analyzer can hold at the fan-in: a value its own
\* analyzer returns, {} if it raised, its default if it does not apply
OwnTable ==
  [mt \in MediaTypes |->
     [n \in Slots |->
        IF n = "sightengine"
        THEN {analyze_deepfake(o) : o \in SightengineImmediate \cup SightengineResponses}
        ELSE IF Applicable(n, mt)
        THEN {EmptyDict} \cup (AnalyzerOutcomes(n, mt) \ {Raised})
        ELSE {DefaultResults[n]}]]

FanIn == pc = "running" /\ next_task = 7 /\ ~se_wait

RaisedIn == {n \in HeuristicNames : Applicable(n, media_type) /\ results[n] = EmptyDict}

\* C11: whichever analyzers raise, every later task of the list still runs,
\* the fan-in finds in each of the seven slots a result of that slot's own
\* analyzer ({} for one that raised), never an exception or a hole, whether
\* the classifier completed first or last, and the pass ends with a trust
\* score and a label
Thm_C11_FailureIsolation ==
  /\ pc = "running" =>
       \A i \in 1..6 : i < next_task =>
         /\ results[Heuristics[i]] \notin {Pending, Raised}
         /\ results[Heuristics[i]] \in OwnTable[media_type][Heuristics[i]]
  /\ (FanIn \/ Done) =>
       \A n \in Slots :
         /\ results[n] \notin {Pending, Raised}
         /\ results[n] \in OwnTable[media_type][n]
  /\ Done => trust_score \in 0..10000 /\ label \in Labels

\* a scored video pass in which two analyzers raised, a third one returned
\* its result after them and the classifier answered last
Wit_C11_TwoRaisedPassScored ==
  /\ Done /\ media_type = "video"
  /\ results["metadata"] = EmptyDict /\ results["audio"] = EmptyDict
  /\ Cardinality(RaisedIn) = 2
  /\ IsDict(results["sync"]) /\ Has(results["sync"], "mismatchScore")
  /\ results["sightengine"].raw_response = SuccessBody(80)
  /\ label \in Labels

---------------------------------------------------------------------------
(* Properties of the stream session *)

Accepted == ws_state \in {"receive", "analyze", "ended"}
ConnectionOpen == ws_state \in {"receive", "analyze"}

\* frames the server has taken from the socket
FramesReceived == Len(frames_sent) - Len(inbox)

\* C12: on a session without classifier credentials the server has sent, after
\* any number of frames, exactly one response per frame received, in arrival
\* order, each with status no_api, trust score 50.0 and label Suspicious, and
\* it has not closed the connection
Thm_C12_NoApiStream ==
  (Accepted /\ ~api_available) =>
    /\ Len(sent) = FramesReceived
    /\ \A i \in 1..Len(sent) :
         sent[i] = FrameResponse(i, PlaceholderScore, "Suspicious", "no_api")
    /\ sent # <<>> /\ client_state = "connected" => ConnectionOpen

\* MaxFrames consecutive frames answered on such a session, still open
Wit_C12_AllFramesAnswered ==
  /\ Accepted /\ ~api_available
  /\ Len(frames_sent) = MaxFrames /\ Len(sent) = MaxFrames
  /\ sent[MaxFrames].status = "no_api"
  /\ ConnectionOpen

\* a frame whose decoding raises
Malformed(text) == text \in {"bad_padding", "data_url_no_comma"}

\* C13: on a session with credentials every frame is answered once and in
\* arrival order, a frame is answered with status error exactly if its
\* decoding raises, and the server does not close the connection: the frames
\* after a malformed one are received and answered
Thm_C13_MalformedFrame ==
  (Accepted /\ api_available) =>
    /\ \A i \in 1..Len(sent) :
         /\ sent[i].frame = i
         /\ sent[i].status = "error" <=> Malformed(frames_sent[i])
    /\ client_state = "connected" =>
         /\ ConnectionOpen
         /\ Len(sent) = FramesReceived - (IF ws_state = "analyze" THEN 1 ELSE 0)

\* a malformed first frame answered with error, the next frame analyzed
Wit_C13_AnalyzedAfterError ==
  /\ Accepted /\ api_available /\ ConnectionOpen
  /\ Len(sent) >= 2
  /\ Malformed(frames_sent[1]) /\ sent[1].status = "error"
  /\ sent[2].frame = 2 /\ sent[2].status = "analyzed"

\* C14: every response sent on a stream session has a status in
\* {analyzed, no_api, no_model, error}
Cex_C14_StatusInSet ==
  \A i \in 1..Len(sent) : sent[i].status \in {"analyzed", "no_api", "no_model", "error"}

\* C15: the adapter reports api_available only for a success body that
\* carries a deepfake probability, and no trust score otherwise
Cex_C15_AvailableOnlyWithProbability ==
  frame_result # None =>
    /\ frame_result.api_available =>
         /\ Get0(frame_result.raw_response, "status") = "success"
         /\ Has(frame_result.raw_response, "deepfake")
    /\ ~frame_result.api_available => frame_result.trust_score = NoneNum

\* C16: the label of an analyzed frame is the label the single-shot route and
\* the local-classifier path give to the same score
Cex_C16_OneLabelFunction ==
  \A i \in 1..Len(sent) :
    sent[i].status = "analyzed" =>
      /\ sent[i].label = _get_label(sent[i].trustScore)
      /\ sent[i].label = get_label_from_score(sent[i].trustScore)

---------------------------------------------------------------------------
(* Properties of the local classifier entry point *)

\* the call could not use a model: none is loaded, the ML libraries are
\* missing, or the prediction raised
WithoutModel ==
  \/ _MODEL = None
  \/ ~ML_AVAILABLE
  \/ (engine_input.media_type \in {"image", "video"} /\ engine_input.prob_real = NoneNum)

\* C17: a call of analyze_media that cannot use a model returns, without
\* raising, the fallback score in [0, 100] (50.0 if the file cannot be read),
\* its label, a list of valid anomalies and a heatmap reference
Cex_C17_FallbackAlwaysReturns ==
  (engine_result # None /\ WithoutModel) =>
    /\ engine_result # Raised
    /\ engine_result.trust_score = FallbackTrust(engine_input)
    /\ engine_result.trust_score \in 0..10000
    /\ engine_result.label = get_label_from_score(engine_result.trust_score)
    /\ \A i \in 1..Len(engine_result.anomalies) : ValidAnomaly(engine_result.anomalies[i])
    /\ Has(engine_result, "heatmap_url")

---------------------------------------------------------------------------
(* Properties of the upload validation *)

AllowedExtensions ==
  [image |-> ALLOWED_IMAGE_EXTENSIONS, video |-> ALLOWED_VIDEO_EXTENSIONS,
   audio |-> ALLOWED_AUDIO_EXTENSIONS]

BadContentType ==
  upload.file.content_type = None \/ upload.file.content_type.major # upload.kind
BadExtension == Lower(upload.file.suffix) \notin AllowedExtensions[upload.kind]
TooLarge == upload.file.size > 500 * 1024 * 1024

\* C18: a request whose content type does not match the endpoint, whose
\* extension is not allowed for the kind or whose size exceeds the maximum
\* never has a file written, an analyzer invoked or a record stored, and is
\* answered with 400
Thm_C18_InvalidUploadRejected ==
  (upload.kind # NoneStr /\ (BadContentType \/ BadExtension \/ TooLarge)) =>
    /\ ~file_written /\ ~analyzers_invoked /\ ~record_stored
    /\ up_pc \notin {"gather", "store"}
    /\ up_pc = "responded" => http_status = 400

\* an upload of the right type and extension, one byte over the maximum, rejected
Wit_C18_OversizeRejected ==
  /\ upload.kind # NoneStr /\ ~BadContentType /\ ~BadExtension /\ TooLarge
  /\ up_pc = "responded" /\ http_status = 400
  /\ ~file_written /\ ~record_stored

---------------------------------------------------------------------------
(* Properties of the anomaly list *)

\* C19: every anomaly of a scored pass has a type of the Anomaly schema, a
\* severity low, medium or high and a confidence in [0, 100]
Cex_C19_AnomaliesConform ==
  Done => \A i \in 1..Len(anomalies) : ValidAnomaly(anomalies[i])

---------------------------------------------------------------------------
(* Properties of repeated analysis *)

\* C20: two analyses of the same bytes by the same endpoint give the same
\* trust score, label and anomaly list
Cex_C20_Idempotent ==
  \A i, j \in 1..Len(demo_runs) : demo_runs[i] = demo_runs[j]

---------------------------------------------------------------------------
(* Properties of the escalation penalty and of the anomaly list *)

\* the heuristic analyzers whose contribution is strictly below 70
BelowSeventy == {n \in HeuristicNames : Contribution(n) < 7000}

\* the penalty, in hundredths of a point, for a number of flagged analyzers
PenaltyFor(count) ==
  CASE count = 0 -> 0
    [] count = 1 -> 500
    [] count = 2 -> 1200
    [] OTHER -> 2000

\* C22: the penalty subtracted from the weighted average before clamping is
\* 0, 5, 12 or 20 for 0, 1, 2 or at least 3 heuristic analyzers with a
\* contribution strictly below 70; a contribution of exactly 70 is not
\* flagged and the score of the external classifier is never counted
Thm_C22_EscalationPenalty ==
  Done =>
    /\ num_suspicious = Cardinality(BelowSeventy)
    /\ trust_score =
         ClampRound(weighted_sum - PenaltyFor(Cardinality(BelowSeventy)) * total_weight,
                    total_weight)

\* a pass with one heuristic contribution of exactly 70, one below 70 and the
\* classifier at 0: one analyzer flagged, penalty 5
Wit_C22_ExactlySeventyNotFlagged ==
  /\ Done
  /\ \E n \in HeuristicNames : Contribution(n) = 7000
  /\ ~ClassifierAbsent /\ results["sightengine"].trust_score = 0
  /\ Cardinality(BelowSeventy) = 1 /\ num_suspicious = 1
  /\ trust_score = RoundDiv(weighted_sum - 500 * total_weight, total_weight)

\* C23: a scored pass labelled Deepfake has at least one anomaly in its list
Cex_C23_DeepfakeHasAnomaly ==
  (Done /\ label = "Deepfake") => Len(anomalies) > 0

---------------------------------------------------------------------------
(* Properties of single analyzer calls *)

\* mouth motion and speech onsets are both present and neither
\* desynchronization rule of lines 148-158 fires
Residual(in) ==
  /\ in.motion /\ in.onsets
  /\ ~(in.density = "high" /\ in.mean = "low")
  /\ ~(in.density = "low" /\ in.mean = "high")

SyncCalled == called = "analyze_sync" /\ IsDict(call_result)

\* C24: in the residual case the verdict is mismatchScore > 50, and both
\* verdicts occur: some other residual input gives the opposite verdict
Cex_C24_EitherOutcome ==
  (SyncCalled /\ Residual(call_input)) =>
    /\ call_result.lipSyncMismatch = (Max(0, 5000 - 2 * call_input.std) > 5000)
    /\ \E in \in SyncCallInputs :
         /\ Residual(in)
         /\ analyze_sync("video", in).lipSyncMismatch # call_result.lipSyncMismatch

FingerprintCalled == called = "analyze_fingerprint" /\ IsDict(call_result)

\* the highest accumulated candidate score of the call, 0 without candidate
Highest ==
  LET sc == FingerprintScores(call_input)
  IN CHOOSE h \in {sc[c] : c \in DOMAIN sc} : \A c \in DOMAIN sc : sc[c] <= h

\* the candidates with that score, by position in the accumulation order
Leaders ==
  {i \in 1..Len(SourceOrder) : FingerprintScores(call_input)[SourceOrder[i]] = Highest}

\* C25: the source is the candidate with the highest accumulated score, the
\* first accumulated on ties, exactly when that score exceeds 30, None
\* otherwise; the probability is that score capped at 100 in both cases
Thm_C25_SourceAboveFloor ==
  FingerprintCalled =>
    /\ call_result.probability = Min(100, Highest) * 100
    /\ Highest > 30 =>
         \E i \in Leaders : /\ call_result.source = SourceOrder[i]
                             /\ \A j \in Leaders : i <= j
    /\ Highest <= 30 => call_result.source = NoneStr

\* a call whose highest candidate has exactly 30: no source, probability 30.0
Wit_C25_AtFloorNoSource ==
  /\ FingerprintCalled /\ Highest = 30
  /\ call_result.source = NoneStr /\ call_result.probability = 3000

\* C26: the reported score lies in [0, 100] and cloned is true exactly when
\* the reported score is above 50
Cex_C26_ClonedIffReportedAbove50 ==
  (called = "analyze_audio" /\ IsDict(call_result)) =>
    /\ call_result.score \in 0..10000
    /\ call_result.cloned <=> call_result.score > 5000

\* C30: the reported source is StyleGAN, NeuralTextures, FaceSwap or None,
\* never DeepFaceLab, Face2Face or Wav2Lip
Thm_C30_ReportedSources ==
  FingerprintCalled =>
    call_result.source \in
      (KNOWN_SOURCES \ {"DeepFaceLab", "Face2Face", "Wav2Lip"}) \cup {NoneStr}

\* a call in which DeepFaceLab accumulated 30 and FaceSwap is reported
Wit_C30_DeepFaceLabOutscored ==
  /\ FingerprintCalled
  /\ FingerprintScores(call_input)["DeepFaceLab"] = 30
  /\ call_result.source = "FaceSwap"

---------------------------------------------------------------------------
(* Properties of the Grad-CAM heatmap *)

\* C27: after every invocation of _generate_gradcam, successful or fallen
\* back to the placeholder, none of the hooks it registered is on the model
Cex_C27_NoHooksLeft == gradcam_calls > 0 => hooks = {}

---------------------------------------------------------------------------
(* Properties of the account lockout *)

Quiet(r) == login[r].pc \in {"idle", "done"}

\* the request found the account locked with locked_until in the future
FoundLocked(r) ==
  /\ login[r].pc = "done"
  /\ login[r].found.is_locked
  /\ login[r].found.locked_until > login[r].checked_at

\* C28: with one request at a time the account is locked exactly when the
\* consecutive wrong passwords have reached max_failed_login_attempts, and a
\* request that finds locked_until in the future is answered 403, whatever
\* its password, and leaves failed_login_attempts, is_locked and locked_until
\* as it found them
Thm_C28_Lockout ==
  /\ Quiet("a") =>
       /\ user_doc.is_locked <=> consecutive_failed = 5
       /\ consecutive_failed <= 5
       /\ user_doc.is_locked => user_doc.locked_until # NoneNum
  /\ FoundLocked("a") =>
       /\ login["a"].status = 403
       /\ user_doc = login["a"].found

\* the fifth wrong password has locked the account, and a request with the
\* right password made before locked_until is answered 403
Wit_C28_CorrectPasswordRefused ==
  /\ FoundLocked("a") /\ login["a"].ok
  /\ login["a"].status = 403
  /\ consecutive_failed = 5
  /\ user_doc.failed_login_attempts = 5 /\ user_doc.is_locked

\* C29: while only wrong passwords have been verified, the stored counter
\* is the number of those verifications once every request is answered (no
\* update is lost), and at most max_failed_login_attempts are verified
Cex_C29_NoLostUpdate ==
  (wrong_checked = consecutive_failed) =>
    /\ wrong_checked <= 5
    /\ (\A r \in Requests : Quiet(r)) => user_doc.failed_login_attempts = wrong_checked

---------------------------------------------------------------------------
(* Properties of the lazy load of the local classifier *)

\* C21: whatever the order of the analyze_media calls, the artifact is loaded at
\* most once: the four globals are assigned by at most one call, and a call
\* that finds _MODEL set does not load again
Thm_C21_LoadedAtMostOnce ==
  /\ model_loads <= 1
  /\ (model_loads = 1) <=> (_MODEL # None)

\* a call that found the model loaded and the artifact loadable, and did not load
Wit_C21_LaterCallDoesNotReload ==
  /\ model_was_loaded
  /\ ML_AVAILABLE /\ engine_input.artifact = "ok"
  /\ model_loads = 1

=============================================================================
